---- MODULE Spec2Model ----
(***************************************************************************)
(* A model of the dependency analysis engine of voyager:                   *)
(*   - PathResolver           (core/src/resolver/path-resolver.ts)         *)
(*   - parseFile/parseScript  (core/src/parser)                            *)
(*   - DependencyAnalyzer     (core/src/dependency/analyzer.ts)            *)
(*   - findCircularDependencies (cli/src/commands/stats.ts)                *)
(* Strings are sequences of one-character strings, so that startsWith,     *)
(* endsWith, includes, concatenation and the path functions are computed   *)
(* character by character as the code computes them.                       *)
(***************************************************************************)
EXTENDS Integers, Sequences, FiniteSets, TLC

---------------------------------------------------------------------------
(* Strings                                                                 *)

Slash == <<"/">>
Dot == <<".">>
DotDot == <<".", ".">>
Empty == <<>>

\* const v = ...; then F(v): v is computed first, F uses it by name
Let(v, F(_)) == CHOOSE r \in {F(x) : x \in {v}} : TRUE

startsWith(s, p) == Len(p) <= Len(s) /\ SubSeq(s, 1, Len(p)) = p

endsWith(s, p) == Len(p) <= Len(s) /\ SubSeq(s, Len(s) - Len(p) + 1, Len(s)) = p

includes(s, p) == \E i \in 1..(Len(s) - Len(p) + 1) : SubSeq(s, i, i + Len(p) - 1) = p

\* s.split('/'): the pieces between consecutive "/"
SplitSlash(s) ==
  LET at == {i \in 1..Len(s) : s[i] = "/"}
      \* the k-th cut: 0, then the positions of "/" in order, then Len(s) + 1
      cut(k) == IF k = 0 THEN 0
                ELSE IF k > Cardinality(at) THEN Len(s) + 1
                ELSE CHOOSE i \in at : Cardinality({j \in at : j < i}) = k - 1 IN
  [k \in 1..(Cardinality(at) + 1) |-> SubSeq(s, cut(k - 1) + 1, cut(k) - 1)]

\* segs.join('/')
RECURSIVE JoinSlash(_)
JoinSlash(segs) ==
  CASE Len(segs) = 0 -> Empty
    [] Len(segs) = 1 -> segs[1]
    [] OTHER -> (segs[1] \o Slash) \o JoinSlash(Tail(segs))

---------------------------------------------------------------------------
(* node:path (posix)                                                       *)

\* process.cwd()
Cwd == <<"/", "r">>

isAbsolute(p) == Len(p) > 0 /\ p[1] = "/"

\* normalizeString: drops "" and "." segments, folds "..", keeps leading ".."
\* only when allowAboveRoot
RECURSIVE NormSegs(_, _, _)
NormSegs(segs, acc, allowAboveRoot) ==
  CASE Len(segs) = 0 -> acc
    [] Len(segs) > 0 /\ Head(segs) \in {Empty, Dot} ->
         NormSegs(Tail(segs), acc, allowAboveRoot)
    [] Len(segs) > 0 /\ Head(segs) = DotDot /\ Len(acc) > 0 /\ acc[Len(acc)] # DotDot ->
         NormSegs(Tail(segs), SubSeq(acc, 1, Len(acc) - 1), allowAboveRoot)
    [] Len(segs) > 0 /\ Head(segs) = DotDot /\ ~allowAboveRoot
                     /\ ~(Len(acc) > 0 /\ acc[Len(acc)] # DotDot) ->
         NormSegs(Tail(segs), acc, allowAboveRoot)
    [] OTHER -> NormSegs(Tail(segs), Append(acc, Head(segs)), allowAboveRoot)

normalizeString(p, allowAboveRoot) ==
  IF Len(p) = 0 THEN Empty
  ELSE JoinSlash(NormSegs(SplitSlash(p), <<>>, allowAboveRoot))

normalize(p) ==
  IF Len(p) = 0 THEN Dot
  ELSE LET abs == isAbsolute(p)
           trailing == p[Len(p)] = "/"
           n == normalizeString(p, ~abs) IN
    IF Len(n) = 0 THEN (IF abs THEN Slash ELSE IF trailing THEN <<".", "/">> ELSE Dot)
    ELSE (IF abs THEN Slash ELSE Empty) \o n \o (IF trailing THEN Slash ELSE Empty)

\* the non-empty arguments joined by "/"
RECURSIVE JoinArgs(_)
JoinArgs(args) ==
  IF Len(args) = 0 THEN Empty
  ELSE LET rest == JoinArgs(Tail(args)) IN
    IF Len(Head(args)) = 0 THEN rest
    ELSE IF Len(rest) = 0 THEN Head(args)
    ELSE Head(args) \o Slash \o rest

\* path.join(...args)
join(args) ==
  LET joined == JoinArgs(args) IN
  IF Len(joined) = 0 THEN Dot ELSE normalize(joined)

\* path.resolve(...args): right to left until an absolute argument is found,
\* the working directory when there is none
RECURSIVE ResolveAcc(_, _)
ResolveAcc(args, acc) ==
  IF Len(args) = 0 THEN Cwd \o Slash \o acc
  ELSE LET p == args[Len(args)]
           front == SubSeq(args, 1, Len(args) - 1) IN
    IF Len(p) = 0 THEN ResolveAcc(front, acc)
    ELSE IF isAbsolute(p) THEN p \o Slash \o acc
    ELSE ResolveAcc(front, p \o Slash \o acc)

resolve(args) == Slash \o normalizeString(ResolveAcc(args, Empty), FALSE)

\* the loop of dirname from the end of p: the index (0-based, >= 1) of the
\* last "/" that has a character other than "/" somewhere after it, -1 when
\* there is none
DirnameEnd(p) ==
  LET ends == {i \in 1..(Len(p) - 1) :
                 p[i + 1] = "/" /\ \E j \in (i + 2)..Len(p) : p[j] # "/"} IN
  IF ends = {} THEN -1 ELSE CHOOSE i \in ends : \A j \in ends : j <= i

\* path.dirname(p)
dirname(p) ==
  IF Len(p) = 0 THEN Dot
  ELSE LET hasRoot == p[1] = "/"
           end == DirnameEnd(p) IN
    IF end = -1 THEN (IF hasRoot THEN Slash ELSE Dot)
    ELSE IF hasRoot /\ end = 1 THEN <<"/", "/">>
    ELSE SubSeq(p, 1, end)

---------------------------------------------------------------------------
(* Values                                                                  *)

\* a value that is not a string (undefined passed where a path is expected)
Undefined == <<"<undefined>">>
\* resolvedPath: null
Null == <<"<null>">>
\* a result without an error field
NoError == <<"<none>">>

ExtVue == <<".", "v", "u", "e">>
ExtTs == <<".", "t", "s">>
ExtTsx == <<".", "t", "s", "x">>
ExtJs == <<".", "j", "s">>
ExtJsx == <<".", "j", "s", "x">>
ExtJson == <<".", "j", "s", "o", "n">>
ExtDTs == <<".", "d", ".", "t", "s">>
IndexStr == <<"i", "n", "d", "e", "x">>
NodeModulesStr == <<"n", "o", "d", "e", "_", "m", "o", "d", "u", "l", "e", "s">>
PackageJsonStr == <<"p", "a", "c", "k", "a", "g", "e", ".", "j", "s", "o", "n">>

\* PathResolver.extensions
extensions == <<ExtVue, ExtTs, ExtTsx, ExtJs, ExtJsx, ExtJson>>

---------------------------------------------------------------------------
(* The file system: a function from the absolute, normalised paths of the  *)
(* regular files to their contents. A content is                           *)
(*   sfcErrors, script, scriptSetup : what the SFC splitter reports,       *)
(*   stmts  : the import statements of the text, in textual order,         *)
(*   jsonOk, main : what JSON.parse gives for the text.                    *)

\* one statement of a file's text; kind is how the statement is written
Stmt(kind, source) == [kind |-> kind, source |-> source]

\* one export statement of a file's text: kind "default" (export default ...),
\* "list" (export { a, b }) or "declaration" (export const a); names are the
\* names it lists
Export(kind, names) == [kind |-> kind, names |-> names]

\* what the patterns of detectScriptType find in a script text. In the raw
\* text: vueImportParts, the number of comma-separated parts of the first
\* `import { ... } from 'vue'` (0: no such import), vueImportApi, whether that
\* import text includes one of the names of compositionImports, and
\* rawRender, a `render()`. In the text without comments and strings: one
\* field for each group of patterns that the classification tells apart
NoSignals ==
  [vueImportParts |-> 0, vueImportApi |-> FALSE, rawRender |-> FALSE,
   cleanVueImport |-> FALSE, defineComponent |-> FALSE, setupFunction |-> FALSE,
   composable |-> FALSE, defineAsyncComponent |-> FALSE,
   dataOrMethods |-> FALSE, otherOptions |-> FALSE, dynamicOptions |-> FALSE,
   functionalTrue |-> FALSE, defaultFunction |-> FALSE,
   classExtends |-> FALSE, componentDecorator |-> FALSE]

\* a text with data() and methods:
OptionsText == [NoSignals EXCEPT !.dataOrMethods = TRUE]
\* a text with defineComponent and setup()
CompositionText == [NoSignals EXCEPT !.defineComponent = TRUE, !.setupFunction = TRUE]
\* a text with setup() and data()
MixedText == [NoSignals EXCEPT !.setupFunction = TRUE, !.dataOrMethods = TRUE]

\* the content of a script block: its import and export statements in textual
\* order, and the signals its text holds
Block(stmts, exports, signals) ==
  [blank |-> FALSE, stmts |-> stmts, exports |-> exports, signals |-> signals]

\* the empty string as a content
NoContent == [blank |-> TRUE, stmts |-> <<>>, exports |-> <<>>, signals |-> NoSignals]

\* descriptor.script / descriptor.scriptSetup: a block with its content and
\* its lang attribute ("" when the block has none)
SfcBlock(content, lang) == [present |-> TRUE, content |-> content, lang |-> lang]

\* descriptor.script / descriptor.scriptSetup when the file has no such block
Absent == [present |-> FALSE, content |-> NoContent, lang |-> ""]

FileContent(sfcErrors, script, scriptSetup, stmts, jsonOk, main) ==
  [sfcErrors |-> sfcErrors, script |-> script, scriptSetup |-> scriptSetup,
   stmts |-> stmts, jsonOk |-> jsonOk, main |-> main,
   exports |-> <<>>, scriptBlock |-> Absent, setupBlock |-> Absent]

\* a Vue file as the SFC splitter sees it: the plain script block, the
\* script-setup block, and other, the statements of the text outside both
VueFile(script, setup, other) ==
  [sfcErrors |-> FALSE, script |-> script.present, scriptSetup |-> setup.present,
   stmts |-> script.content.stmts \o setup.content.stmts \o other.stmts,
   jsonOk |-> FALSE, main |-> Empty,
   exports |-> script.content.exports \o setup.content.exports \o other.exports,
   scriptBlock |-> script, setupBlock |-> setup]

\* a Vue file with a <script setup> block holding stmts
VueSetup(stmts) == VueFile(Absent, SfcBlock(Block(stmts, <<>>, NoSignals), ""), NoContent)
\* a Vue file with a plain <script> block holding stmts
VueScript(stmts) == VueFile(SfcBlock(Block(stmts, <<>>, NoSignals), ""), Absent, NoContent)
\* a Vue file with no script block at all
VueNoScript == FileContent(FALSE, FALSE, FALSE, <<>>, FALSE, Empty)
\* a Vue file the SFC splitter reports errors for
VueMalformed == FileContent(TRUE, FALSE, FALSE, <<>>, FALSE, Empty)
\* a .ts/.js file
ScriptFile(stmts) == FileContent(FALSE, FALSE, FALSE, stmts, FALSE, Empty)
\* a .ts/.js file with the given import and export statements
ScriptText(content) ==
  [FileContent(FALSE, FALSE, FALSE, content.stmts, FALSE, Empty)
     EXCEPT !.exports = content.exports]
\* a package.json with the given main field (Empty: no main field)
PkgJson(main) == FileContent(FALSE, FALSE, FALSE, <<>>, TRUE, main)
\* a package.json that is not JSON
PkgJsonBad == FileContent(FALSE, FALSE, FALSE, <<>>, FALSE, Empty)

IsFile(files, p) == p \in DOMAIN files

IsDir(files, p) ==
  \/ p = Slash
  \/ \E f \in DOMAIN files : startsWith(f, p \o Slash)

\* fs.existsSync(p): never throws; false for a value that is not a path
existsSync(files, p) ==
  IF p = Undefined \/ Len(p) = 0 THEN FALSE
  ELSE LET q == resolve(<<p>>) IN
    \/ IsDir(files, q)
    \/ IsFile(files, q) /\ p[Len(p)] # "/"

\* fs.statSync(p).isDirectory(), for a p that exists
isDirectory(files, p) == IsDir(files, resolve(<<p>>))

\* fs.readFileSync(p, 'utf-8') succeeds; it throws for a missing file and
\* for a directory
Readable(files, p) ==
  p # Undefined /\ Len(p) > 0 /\ p[Len(p)] # "/" /\ IsFile(files, resolve(<<p>>))

ReadFile(files, p) == files[resolve(<<p>>)]

---------------------------------------------------------------------------
(* PathResolver                                                            *)

\* { resolvedPath: p }
Resolved(p) == [resolvedPath |-> p, error |-> NoError, thrown |-> FALSE]
\* { resolvedPath: null, error: `${msg}${arg}` }
Failure(msg, arg) == [resolvedPath |-> Null, error |-> <<msg>> \o arg, thrown |-> FALSE]
\* not a return value: an exception with the given message leaving the function
Thrown(msg) == [resolvedPath |-> Null, error |-> <<msg>>, thrown |-> TRUE]

\* the truthiness test `if (result.resolvedPath)`
Truthy(p) == p # Null /\ p # Empty

\* s.replace(/\*$/, '')
StripStar(s) ==
  IF Len(s) > 0 /\ s[Len(s)] = "*" THEN SubSeq(s, 1, Len(s) - 1) ELSE s

\* the result of a step that is not taken
Skipped == Failure("", Empty)

\* `if (result.resolvedPath) return result;` and then next. An exception
\* raised while result was computed leaves the method in place of a return.
OrNext(result, next) ==
  IF result.thrown \/ Truthy(result.resolvedPath) THEN result ELSE next

\* a path that was searched for, Null when it was not found: p, else next
OrElse(p, next) == IF p # Null THEN p ELSE next

\* new PathResolver(options); options.baseUrl Empty/absent means no baseUrl,
\* options.resolveNodeModules is "default" when absent
\* the constructor with `options.resolveNodeModules || true`: always enabled
PathResolverModulesOn(options) ==
  LET rootDir == resolve(<<options.rootDir>>) IN
  [rootDir |-> rootDir,
   baseUrl |-> IF options.baseUrl # Empty THEN resolve(<<rootDir, options.baseUrl>>)
               ELSE rootDir,
   paths |-> options.paths,
   resolveNodeModules |-> TRUE]

PathResolver(options) ==
  LET rootDir == resolve(<<options.rootDir>>) IN
  [rootDir |-> rootDir,
   baseUrl |-> IF options.baseUrl # Empty THEN resolve(<<rootDir, options.baseUrl>>)
               ELSE rootDir,
   paths |-> options.paths,
   resolveNodeModules |-> IF options.resolveNodeModules = "default" THEN TRUE
                          ELSE options.resolveNodeModules = "true"]

\* the validation with the type test alone
isValidImportPathTypeOnly(importPath) == importPath # Undefined

isValidImportPath(importPath) == importPath # Empty /\ importPath # Undefined

\* for (const ext of this.extensions) { if (existsSync(Path(ext))) return ... }:
\* the path of the first extension, in the order of the list, whose path
\* exists; Null when none does
FirstExisting(files, Path(_)) ==
  LET hits == {i \in 1..Len(extensions) : existsSync(files, Path(extensions[i]))} IN
  IF hits = {} THEN Null
  ELSE Path(extensions[CHOOSE i \in hits : \A j \in hits : i <= j])

\* the first index.<ext> of the directory that exists, Null when none does
FirstIndex(files, dir) ==
  FirstExisting(files, LAMBDA ext : join(<<dir, IndexStr \o ext>>))

\* the first basePath + ext that exists, Null when none does
FirstWithExt(files, basePath) ==
  FirstExisting(files, LAMBDA ext : basePath \o ext)

\* step 1 of resolveWithExtension: basePath when it is a file, the first
\* index.<ext> when it is a directory, Null otherwise
CompletePath(files, basePath) ==
  IF ~existsSync(files, basePath) THEN Null
  ELSE IF isDirectory(files, basePath) THEN FirstIndex(files, basePath)
  ELSE basePath

\* step 4 of resolveWithExtension: the package.json main field; Null when
\* there is no usable one (read and JSON errors are swallowed)
PackageMain(files, basePath) ==
  LET pkgPath == join(<<basePath, PackageJsonStr>>) IN
  IF ~includes(basePath, NodeModulesStr) \/ ~existsSync(files, pkgPath) THEN Null
  \* readFileSync of a directory, or JSON.parse of bad text, throws: caught
  ELSE IF ~Readable(files, pkgPath) THEN Null
  ELSE LET pkg == ReadFile(files, pkgPath) IN
    IF ~pkg.jsonOk \/ pkg.main = Empty THEN Null
    ELSE LET mainPath == join(<<basePath, pkg.main>>) IN
      IF existsSync(files, mainPath) THEN mainPath ELSE Null

\* the return value of resolveWithExtension for the path found
ResultFor(basePath, found) ==
  IF found # Null THEN Resolved(found)
  ELSE Failure("File does not exist: ", basePath)

\* steps 1, 2 and 4 in turn; step 3 repeats the index search of step 1 and
\* finds what step 1 found
resolveWithExtension(files, basePath) ==
  ResultFor(basePath,
            OrElse(CompletePath(files, basePath),
                   OrElse(FirstWithExt(files, basePath),
                          PackageMain(files, basePath))))

\* the while loop of resolveNodeModule, from directory dir upward
RECURSIVE NodeModulesWalk(_, _, _, _)
NodeModulesWalk(files, this, importPath, dir) ==
  IF dir # this.rootDir /\ dir # Slash /\ dir # Dot
    THEN OrNext(resolveWithExtension(files, join(<<dir, NodeModulesStr, importPath>>)),
                NodeModulesWalk(files, this, importPath, dirname(dir)))
  ELSE Failure("Module not found: ", importPath)

\* resolveNodeModule walking up from the importing file before it looks in
\* the root's node_modules
resolveNodeModuleNearestFirst(files, this, importPath, fromFile) ==
  IF fromFile = Undefined THEN Thrown("TypeError")
  ELSE OrNext(Let(NodeModulesWalk(files, this, importPath, dirname(fromFile)),
                  LAMBDA walked : IF Truthy(walked.resolvedPath) THEN walked ELSE Skipped),
              resolveWithExtension(files, join(<<this.rootDir, NodeModulesStr, importPath>>)))

resolveNodeModule(files, this, importPath, fromFile) ==
  OrNext(resolveWithExtension(files, join(<<this.rootDir, NodeModulesStr, importPath>>)),
         \* dirname(fromFile) throws a TypeError when fromFile is not a string
         IF fromFile = Undefined THEN Thrown("TypeError")
         ELSE NodeModulesWalk(files, this, importPath, dirname(fromFile)))

\* the inner loop of resolveAliasPath over one alias's targets
RECURSIVE AliasTargets(_, _, _, _, _)
AliasTargets(files, this, targets, suffix, i) ==
  IF i > Len(targets) THEN Skipped
  ELSE OrNext(resolveWithExtension(files,
                resolve(<<this.rootDir, StripStar(targets[i]), suffix>>)),
              AliasTargets(files, this, targets, suffix, i + 1))

\* the outer loop of resolveAliasPath over Object.entries(this.paths)
RECURSIVE AliasEntries(_, _, _, _)
AliasEntries(files, this, importPath, k) ==
  IF k > Len(this.paths) THEN Failure("Cannot resolve alias path: ", importPath)
  ELSE LET pattern == StripStar(this.paths[k].alias) IN
    OrNext(IF startsWith(importPath, pattern)
           THEN AliasTargets(files, this, this.paths[k].targets,
                             SubSeq(importPath, Len(pattern) + 1, Len(importPath)), 1)
           ELSE Skipped,
           AliasEntries(files, this, importPath, k + 1))

resolveAliasPath(files, this, importPath) == AliasEntries(files, this, importPath, 1)

\* resolveRelativePath resolving a non-relative specifier from rootDir in
\* place of baseUrl
resolveRelativeFromRoot(files, this, importPath, fromFile) ==
  IF startsWith(importPath, Dot) THEN
    IF fromFile = Undefined THEN Thrown("TypeError")
    ELSE resolveWithExtension(files, resolve(<<dirname(fromFile), importPath>>))
  ELSE resolveWithExtension(files, resolve(<<this.rootDir, importPath>>))

resolveRelativePath(files, this, importPath, fromFile) ==
  IF startsWith(importPath, Dot) THEN
    \* dirname(fromFile) throws a TypeError when fromFile is not a string
    IF fromFile = Undefined THEN Thrown("TypeError")
    ELSE resolveWithExtension(files, resolve(<<dirname(fromFile), importPath>>))
  ELSE resolveWithExtension(files, resolve(<<this.baseUrl, importPath>>))

\* the body of the try block of resolve
ResolveBody(files, this, importPath, fromFile) ==
  IF ~isValidImportPath(importPath) THEN Failure("Invalid path", Empty)
  ELSE IF isAbsolute(importPath) THEN resolveWithExtension(files, importPath)
  ELSE
    \* 3. alias paths
    OrNext(IF startsWith(importPath, <<"@">>) \/ startsWith(importPath, <<"#">>)
           THEN resolveAliasPath(files, this, importPath)
           ELSE Skipped,
    \* 4. node_modules
    IF ~startsWith(importPath, Dot) /\ ~this.resolveNodeModules
      THEN Failure("node_modules resolution is disabled", Empty)
    ELSE OrNext(IF ~startsWith(importPath, Dot)
                THEN resolveNodeModule(files, this, importPath, fromFile)
                ELSE Skipped,
    \* 5. relative paths
                resolveRelativePath(files, this, importPath, fromFile)))

\* catch (error) { return { resolvedPath: null, error: error.message } }
Catch(result) == IF result.thrown THEN Failure(result.error[1], Empty) ELSE result

\* resolve without its try/catch: an exception leaves the method
ResolveNoCatch(files, this, importPath, fromFile) ==
  ResolveBody(files, this, importPath, fromFile)

\* try { ...body... } catch (error) { ... }
PathResolver_resolve(files, this, importPath, fromFile) ==
  Catch(ResolveBody(files, this, importPath, fromFile))

---------------------------------------------------------------------------
(* Parser                                                                  *)

\* the statement kinds each IMPORT_REGEX pattern matches
IMPORT_REGEX == <<"DEFAULT", "NAMED", "MIXED", "SIDE_EFFECT">>

\* the global-flag patterns of EXPORT_REGEX, in the order parseScript loops
\* over them; EXPORT_REGEX.DEFAULT has no global flag and keeps no position
EXPORT_REGEX == <<"EXPORT_NAMED", "EXPORT_DECLARATION">>

Matches(regex, stmt) ==
  \/ regex = "DEFAULT" /\ stmt.kind = "default"
  \/ regex = "NAMED" /\ stmt.kind = "named"
  \/ regex = "MIXED" /\ stmt.kind = "mixed"
  \/ regex = "SIDE_EFFECT" /\ stmt.kind = "side"
  \/ regex = "EXPORT_NAMED" /\ stmt.kind = "list"
  \/ regex = "EXPORT_DECLARATION" /\ stmt.kind = "declaration"

\* regex.exec(content) of a global-flag regex whose lastIndex is li: the
\* first match at or after li, leaving lastIndex behind it; no match resets
\* lastIndex to 0. Positions count statements.
RECURSIVE RegexExec(_, _, _)
RegexExec(regex, stmts, li) ==
  IF li >= Len(stmts) THEN [match |-> 0, lastIndex |-> 0]
  ELSE IF Matches(regex, stmts[li + 1]) THEN [match |-> li + 1, lastIndex |-> li + 1]
  ELSE RegexExec(regex, stmts, li + 1)

\* { source, hasDefault, ... } pushed for a match of the given pattern
ImportStatement(regex, stmt) ==
  [source |-> stmt.source, hasDefault |-> regex \in {"DEFAULT", "MIXED"}]

\* a single exec call in place of the loop: if ((match = regex.exec(content)) !== null)
ExecOnce(regex, stmts, li, imports) ==
  Let(RegexExec(regex, stmts, li), LAMBDA m :
    [imports |-> IF m.match = 0 THEN imports
                 ELSE Append(imports, ImportStatement(regex, stmts[m.match])),
     lastIndex |-> m.lastIndex])

\* while ((match = regex.exec(content)) !== null) imports.push(...)
RECURSIVE ExecLoop(_, _, _, _)
ExecLoop(regex, stmts, li, imports) ==
  Let(RegexExec(regex, stmts, li), LAMBDA m :
    IF m.match = 0 THEN [imports |-> imports, lastIndex |-> m.lastIndex]
    ELSE ExecLoop(regex, stmts, m.lastIndex,
                  Append(imports, ImportStatement(regex, stmts[m.match]))))

\* the four loops of parseScript in turn; re is the lastIndex of each pattern
RECURSIVE ImportLoops(_, _, _, _)
ImportLoops(stmts, re, imports, k) ==
  IF k > Len(IMPORT_REGEX) THEN [imports |-> imports, re |-> re]
  ELSE LET regex == IMPORT_REGEX[k] IN
    Let(ExecLoop(regex, stmts, re[regex], imports), LAMBDA r :
      ImportLoops(stmts, [re EXCEPT ![regex] = r.lastIndex], r.imports, k + 1))

\* a single exec call in place of the export loop
ExportOnce(regex, exports, li, named) ==
  Let(RegexExec(regex, exports, li), LAMBDA m :
    [named |-> IF m.match = 0 THEN named ELSE named \o exports[m.match].names,
     lastIndex |-> m.lastIndex])

\* while ((match = regex.exec(content)) !== null) exports.named.push(...)
RECURSIVE ExportLoop(_, _, _, _)
ExportLoop(regex, exports, li, named) ==
  Let(RegexExec(regex, exports, li), LAMBDA m :
    IF m.match = 0 THEN [named |-> named, lastIndex |-> m.lastIndex]
    ELSE ExportLoop(regex, exports, m.lastIndex, named \o exports[m.match].names))

\* the two export loops of parseScript in turn
RECURSIVE ExportLoops(_, _, _, _)
ExportLoops(exports, re, named, k) ==
  IF k > Len(EXPORT_REGEX) THEN [named |-> named, re |-> re]
  ELSE LET regex == EXPORT_REGEX[k] IN
    Let(ExportLoop(regex, exports, re[regex], named), LAMBDA r :
      ExportLoops(exports, [re EXCEPT ![regex] = r.lastIndex], r.named, k + 1))

\* EXPORT_REGEX.DEFAULT.test(content)
HasDefaultExport(exports) == \E i \in 1..Len(exports) : exports[i].kind = "default"

ScriptType(filePath) == IF endsWith(filePath, ExtDTs) THEN "definition" ELSE "script"

\* detectScriptLang(filePath) of the script parser
detectScriptLangOfPath(filePath) ==
  IF endsWith(filePath, ExtTs) \/ endsWith(filePath, ExtTsx) THEN "ts"
  ELSE IF endsWith(filePath, ExtJs) \/ endsWith(filePath, ExtJsx) THEN "js"
  ELSE "unknown"

\* { hasDefault, named }
ExportInfo(hasDefault, named) == [hasDefault |-> hasDefault, named |-> named]

\* the scriptType of a result that has none
NoScriptType == "<none>"

\* a ParseResult; error is whether the error field is set
ParseResult(type, filePath, scriptType, scriptLang, imports, exports, error) ==
  [type |-> type, filePath |-> filePath, scriptType |-> scriptType,
   scriptLang |-> scriptLang, imports |-> imports, exports |-> exports, error |-> error]

\* no result: an exception left the function
NoResult == [filePath |-> Null, error |-> TRUE]

\* an exception raised in a try block, the patterns' state being re
Uncaught(re) == [thrown |-> TRUE, result |-> NoResult, re |-> re]

\* a return statement
Returned(result, re) == [thrown |-> FALSE, result |-> result, re |-> re]

\* the try block of parseScript; readFileSync throws for a missing file and
\* for a directory
ScriptBody(files, re, filePath) ==
  IF ~Readable(files, filePath) THEN Uncaught(re)
  ELSE Let(ReadFile(files, filePath), LAMBDA content :
    Let(ImportLoops(content.stmts, re, <<>>, 1), LAMBDA r :
      Let(ExportLoops(content.exports, r.re, <<>>, 1), LAMBDA e :
        Returned(ParseResult(ScriptType(filePath), filePath, NoScriptType,
                             detectScriptLangOfPath(filePath), r.imports,
                             ExportInfo(HasDefaultExport(content.exports), e.named),
                             FALSE),
                 e.re))))

\* the catch block of parseScript
CatchScript(filePath, t) ==
  IF t.thrown
    THEN Returned(ParseResult(ScriptType(filePath), filePath, NoScriptType,
                              detectScriptLangOfPath(filePath), <<>>,
                              ExportInfo(FALSE, <<>>), TRUE),
                  t.re)
  ELSE t

\* parseScript without its try/catch
parseScriptNoCatch(files, re, filePath) == ScriptBody(files, re, filePath)

\* parseScript(filePath): the result and the patterns' state afterwards
parseScript(files, re, filePath) == CatchScript(filePath, ScriptBody(files, re, filePath))

\* the fallback on the raw content (lines 32-47): the first
\* `import { ... } from 'vue'` names one of compositionImports and either the
\* text has a render() or the import splits into more than 10 parts
RawFallback(s) ==
  /\ s.vueImportParts > 0
  /\ s.vueImportApi
  /\ (s.rawRender \/ s.vueImportParts > 10)

\* hasCompositionAPI after lines 56-101
hasCompositionAPI(s) ==
  \/ s.cleanVueImport
  \/ s.defineComponent \/ s.setupFunction \/ s.composable \/ s.defineAsyncComponent

\* hasOptionsAPI after lines 103-142 and 159-170
hasOptionsAPI(s) == s.dataOrMethods \/ s.otherOptions \/ s.dynamicOptions

\* lines 183-210: both kinds of signal are present
MixedOrComposition(s) ==
  IF s.defineAsyncComponent THEN "composition"
  ELSE IF s.setupFunction THEN (IF ~s.dataOrMethods THEN "composition" ELSE "mixed")
  ELSE IF s.defineComponent THEN "composition"
  ELSE "mixed"

\* lines 172-220
ByApiSignals(s) ==
  IF s.defineComponent /\ s.setupFunction THEN "composition"
  ELSE IF hasCompositionAPI(s) /\ hasOptionsAPI(s) THEN MixedOrComposition(s)
  ELSE IF hasCompositionAPI(s) THEN "composition"
  ELSE IF hasOptionsAPI(s) THEN "options"
  ELSE "unknown"

\* a classification that lets defineComponent with setup decide before the
\* functional and class tests
ClassifyApiFirst(s) ==
  IF s.defineComponent /\ s.setupFunction THEN "composition"
  ELSE IF s.functionalTrue \/ s.defaultFunction THEN "functional"
  ELSE IF s.classExtends \/ s.componentDecorator THEN "class"
  ELSE ByApiSignals(s)

\* lines 49-220: the classification of the content without comments and
\* strings
Classify(s) ==
  IF s.functionalTrue \/ s.defaultFunction THEN "functional"
  ELSE IF s.classExtends \/ s.componentDecorator THEN "class"
  ELSE ByApiSignals(s)

\* detectScriptType without the script-setup test
detectScriptTypeByContent(content, hasScriptSetup) ==
  IF RawFallback(content.signals) THEN "composition" ELSE Classify(content.signals)

detectScriptType(content, hasScriptSetup) ==
  IF hasScriptSetup THEN "composition"
  ELSE IF RawFallback(content.signals) THEN "composition"
  ELSE Classify(content.signals)

\* detectScriptLang(descriptor) of the Vue parser
detectScriptLang(descriptor) ==
  LET lang == IF descriptor.setupBlock.lang # "" THEN descriptor.setupBlock.lang
              ELSE descriptor.scriptBlock.lang IN
  IF lang \in {"ts", "typescript"} THEN "ts"
  ELSE IF lang \in {"js", "javascript", ""} THEN "js"
  ELSE "unknown"

\* descriptor.scriptSetup?.content || descriptor.script?.content || ''
ScriptContent(descriptor) ==
  IF ~descriptor.setupBlock.content.blank THEN descriptor.setupBlock.content
  ELSE IF ~descriptor.scriptBlock.content.blank THEN descriptor.scriptBlock.content
  ELSE NoContent

\* the return statement of parseVue for a file with a script block:
\* tempScriptResult is what parseScript(filePath) gave
VueResult(filePath, descriptor, tempScriptResult) ==
  IF tempScriptResult.thrown THEN Uncaught(tempScriptResult.re)
  ELSE Returned(ParseResult("vue", filePath,
                            detectScriptType(ScriptContent(descriptor), descriptor.scriptSetup),
                            detectScriptLang(descriptor),
                            tempScriptResult.result.imports,
                            ExportInfo(TRUE, tempScriptResult.result.exports.named),
                            FALSE),
                tempScriptResult.re)

\* the try block of parseVue
VueBody(files, re, filePath) ==
  IF ~Readable(files, filePath) THEN Uncaught(re)
  ELSE Let(ReadFile(files, filePath), LAMBDA descriptor :
    \* throw new Error(`Vue SFC parse errors: ...`)
    IF descriptor.sfcErrors THEN Uncaught(re)
    ELSE IF ~descriptor.script /\ ~descriptor.scriptSetup
      THEN Returned(ParseResult("vue", filePath, "unknown", "js", <<>>,
                                ExportInfo(TRUE, <<>>), FALSE),
                    re)
    ELSE VueResult(filePath, descriptor, parseScript(files, re, filePath)))

\* the catch block of parseVue
CatchVue(filePath, t) ==
  IF t.thrown
    THEN Returned(ParseResult("vue", filePath, "unknown", "unknown", <<>>,
                              ExportInfo(TRUE, <<>>), TRUE),
                  t.re)
  ELSE t

\* parseVue(filePath)
parseVue(files, re, filePath) == CatchVue(filePath, VueBody(files, re, filePath))

parseFile(files, re, filePath) ==
  IF endsWith(filePath, ExtVue) THEN parseVue(files, re, filePath)
  ELSE parseScript(files, re, filePath)

---------------------------------------------------------------------------
(* DependencyAnalyzer                                                      *)

\* the segments of an absolute path
Segments(p) == NormSegs(SplitSlash(p), <<>>, FALSE)

RECURSIVE CommonPrefix(_, _, _)
CommonPrefix(a, b, n) ==
  IF n < Len(a) /\ n < Len(b) /\ a[n + 1] = b[n + 1] THEN CommonPrefix(a, b, n + 1)
  ELSE n

\* path.relative(from, to)
relative(from, to) ==
  LET a == Segments(resolve(<<from>>))
      b == Segments(resolve(<<to>>))
      n == CommonPrefix(a, b, 0) IN
  JoinSlash([i \in 1..(Len(a) - n) |-> DotDot] \o SubSeq(b, n + 1, Len(b)))

\* new Map(): keys in insertion order, val the value of each key
EmptyMap == [keys |-> <<>>, val |-> <<>>]

MapHas(m, k) == \E i \in 1..Len(m.keys) : m.keys[i] = k

MapIndex(m, k) == CHOOSE i \in 1..Len(m.keys) : m.keys[i] = k

MapGet(m, k) == m.val[MapIndex(m, k)]

\* map.set(k, v): a present key keeps its place
MapSet(m, k, v) ==
  IF MapHas(m, k) THEN [m EXCEPT !.val[MapIndex(m, k)] = v]
  ELSE [keys |-> Append(m.keys, k), val |-> Append(m.val, v)]

\* new Set(): the edge objects in insertion order. Every edge is a new object
\* literal, so set.add never finds it present.
EmptySet == <<>>

SetAdd(set, edge) == Append(set, edge)

\* new DependencyAnalyzer(options)
DependencyAnalyzer(options) ==
  [rootDir |-> options.rootDir, pathResolver |-> PathResolver(options)]

\* no node: analyzeFile returned null
NullNode == [id |-> Null]

DependencyNode(this, parseResult) ==
  [id |-> parseResult.filePath,
   relativePath |-> relative(this.rootDir, parseResult.filePath),
   type |-> parseResult.type,
   imports |-> [i \in 1..Len(parseResult.imports) |-> parseResult.imports[i].source],
   importedBy |-> <<>>]

\* analyzeFile without the `parseResult.error` test
analyzeFileKeepErrors(files, re, this, filePath) ==
  Let(parseFile(files, re, filePath), LAMBDA p :
    [node |-> DependencyNode(this, p.result), re |-> p.re])

analyzeFile(files, re, this, filePath) ==
  Let(parseFile(files, re, filePath), LAMBDA p :
    [node |-> IF p.result.error THEN NullNode ELSE DependencyNode(this, p.result),
     re |-> p.re])

\* step 1 of analyze: one node per file that parses
RECURSIVE MakeNodes(_, _, _, _, _, _)
MakeNodes(files, re, this, fileList, i, nodes) ==
  IF i > Len(fileList) THEN [nodes |-> nodes, re |-> re]
  ELSE Let(analyzeFile(files, re, this, fileList[i]), LAMBDA a :
    MakeNodes(files, a.re, this, fileList, i + 1,
              IF a.node # NullNode THEN MapSet(nodes, fileList[i], a.node) ELSE nodes))

DependencyEdge(from, to) == [from |-> from, to |-> to, type |-> "import"]

\* targetNode.dependencies.importedBy.push(filePath), when to is a node
PushImportedBy(nodes, to, filePath) ==
  IF MapHas(nodes, to)
    THEN [nodes EXCEPT !.val[MapIndex(nodes, to)].importedBy = Append(@, filePath)]
  ELSE nodes

\* if (resolvedPath) { edges.add(...); if (targetNode) ...push(filePath) }
AddEdge(g, filePath, to) ==
  IF ~Truthy(to) THEN g
  ELSE [nodes |-> PushImportedBy(g.nodes, to, filePath),
        edges |-> SetAdd(g.edges, DependencyEdge(filePath, to))]

\* the inner loop body without the importedBy push
AddImportEdgeOnly(files, this, g, filePath, importPath) ==
  LET to == PathResolver_resolve(files, this.pathResolver, importPath, filePath).resolvedPath IN
  IF ~Truthy(to) THEN g
  ELSE [nodes |-> g.nodes, edges |-> SetAdd(g.edges, DependencyEdge(filePath, to))]

\* the body of the inner loop of step 2 for one import of filePath
AddImport(files, this, g, filePath, importPath) ==
  AddEdge(g, filePath,
          PathResolver_resolve(files, this.pathResolver, importPath, filePath).resolvedPath)

RECURSIVE MakeEdgesOf(_, _, _, _, _, _)
MakeEdgesOf(files, this, g, filePath, imports, j) ==
  IF j > Len(imports) THEN g
  ELSE MakeEdgesOf(files, this, AddImport(files, this, g, filePath, imports[j]),
                   filePath, imports, j + 1)

\* step 2 of analyze: the nodes in map order, each one's imports in order
RECURSIVE MakeEdges(_, _, _, _)
MakeEdges(files, this, g, k) ==
  IF k > Len(g.nodes.keys) THEN g
  ELSE MakeEdges(files, this,
                 MakeEdgesOf(files, this, g, g.nodes.keys[k], g.nodes.val[k].imports, 1),
                 k + 1)

\* analyze continuing from the held graph's content instead of empty containers
NewGraphFromHeld(held) == held

\* the containers analyze starts from: new Map(), new Set()
NewGraph(held) == [nodes |-> EmptyMap, edges |-> EmptySet]

\* the graph analyze builds and the patterns' state afterwards; held is the
\* value of this.graph before the call
BuildGraph(files, re, this, held, fileList) ==
  LET g0 == NewGraph(held) IN
  Let(MakeNodes(files, re, this, fileList, 1, g0.nodes), LAMBDA s1 :
    [graph |-> MakeEdges(files, this, [nodes |-> s1.nodes, edges |-> g0.edges], 1),
     re |-> s1.re])

---------------------------------------------------------------------------
(* Cycle detector (stats command)                                          *)

\* Array.from(graph.entries()).find(([_, n]) => n.relativePath === dep ||
\* n.id.endsWith(dep)): the index of the first such entry, 0 when none
RECURSIVE FindDepNode(_, _, _)
FindDepNode(graph, dep, i) ==
  IF i > Len(graph.keys) THEN 0
  ELSE IF graph.val[i].relativePath = dep \/ endsWith(graph.val[i].id, dep) THEN i
  ELSE FindDepNode(graph, dep, i + 1)

\* path.indexOf(x), 0-based, -1 when absent
RECURSIVE IndexOfFrom(_, _, _)
IndexOfFrom(path, x, i) ==
  IF i > Len(path) THEN -1
  ELSE IF path[i] = x THEN i - 1
  ELSE IndexOfFrom(path, x, i + 1)

\* path.indexOf(x, 1): a search that skips the head of the path
indexOfAfterHead(path, x) == IndexOfFrom(path, x, 2)

indexOf(path, x) == IndexOfFrom(path, x, 1)

\* one observation of the detector: the event ("call" on entering dfs,
\* "enter" after line 36, "leave" after line 63), the node and path of the
\* call, and the recursion stack at that point
Step(event, node, path, stack) ==
  [event |-> event, node |-> node, path |-> path, stack |-> stack]

\* st is the closure state: visited, recursionStack, cycles, and the
\* observations made so far
RECURSIVE dfs(_, _, _, _)
RECURSIVE DfsDeps(_, _, _, _, _, _)
DfsDeps(graph, node, path, imports, j, st) ==
  IF j > Len(imports) THEN st
  ELSE LET d == FindDepNode(graph, imports[j], 1)
           depPath == graph.keys[d]
           cycleStart == indexOf(path, depPath)
           st1 ==
             IF d = 0 THEN st
             ELSE IF depPath \notin st.visited
               THEN dfs(graph, depPath, Append(path, depPath), st)
             ELSE IF depPath \in st.recursionStack /\ cycleStart # -1
               THEN [st EXCEPT !.cycles =
                       Append(@, Append(SubSeq(path, cycleStart + 1, Len(path)), depPath))]
             ELSE st IN
    DfsDeps(graph, node, path, imports, j + 1, st1)

\* a dfs that leaves its node on the recursion stack when it returns
dfsKeepStack(graph, node, path, st) ==
  LET entered == [st EXCEPT !.visited = @ \cup {node}, !.recursionStack = @ \cup {node},
                            !.steps = @ \o <<Step("call", node, path, st.recursionStack),
                                             Step("enter", node, path,
                                                  st.recursionStack \cup {node})>>]
      after == IF MapHas(graph, node)
               THEN DfsDeps(graph, node, path, MapGet(graph, node).imports, 1, entered)
               ELSE entered IN
  [after EXCEPT !.steps = Append(@, Step("leave", node, path, after.recursionStack))]

dfs(graph, node, path, st) ==
  LET entered == [st EXCEPT !.visited = @ \cup {node}, !.recursionStack = @ \cup {node},
                            !.steps = @ \o <<Step("call", node, path, st.recursionStack),
                                             Step("enter", node, path,
                                                  st.recursionStack \cup {node})>>]
      after == IF MapHas(graph, node)
               THEN DfsDeps(graph, node, path, MapGet(graph, node).imports, 1, entered)
               ELSE entered IN
  [after EXCEPT !.recursionStack = @ \ {node},
                !.steps = Append(@, Step("leave", node, path,
                                         after.recursionStack \ {node}))]

\* the loop over the map's keys that starts a dfs at every unvisited node
RECURSIVE DfsRoots(_, _, _)
DfsRoots(graph, k, st) ==
  IF k > Len(graph.keys) THEN st
  ELSE DfsRoots(graph, k + 1,
                IF graph.keys[k] \notin st.visited
                THEN dfs(graph, graph.keys[k], <<graph.keys[k]>>, st)
                ELSE st)

\* the closure state when the loop over the roots has ended
Detect(graph) ==
  DfsRoots(graph, 1, [visited |-> {}, recursionStack |-> {}, cycles |-> <<>>,
                      steps |-> <<>>])

findCircularDependencies(graph) == Detect(graph).cycles

---------------------------------------------------------------------------
(* Dependency tree (deps command)                                          *)

\* the depth of recursion the engine's call stack allows, scaled to the
\* model; a deeper call raises a RangeError
StackLimit == 7

\* options.depth === 'all' ? null : parseInt(options.depth, 10)
maxDepth(depth) ==
  IF depth = "all" THEN [null |-> TRUE, n |-> 0]
  ELSE [null |-> FALSE, n |-> IF depth = "1" THEN 1 ELSE 2]

DependencyTree(path, relativePath, children) ==
  [path |-> path, relativePath |-> relativePath, children |-> children]

\* what a call produced: the trees it returned, or the stack overflow that
\* ended it
Collected(overflow, trees) == [overflow |-> overflow, trees |-> trees]

\* acc is the state of the loop over the dependencies: the trees pushed, the
\* caller's visited set, and whether a nested call overflowed the stack
RECURSIVE collectDependencies(_, _, _, _, _, _)
CollectImport(graph, depth, currentDepth, dep, d, acc) ==
  IF d = 0
  THEN [acc EXCEPT !.trees = Append(@, DependencyTree(dep, dep, <<>>))]
  ELSE Let(collectDependencies(graph.val[d], graph, "imports", depth, currentDepth + 1,
                               acc.visited \cup {graph.keys[d]}),
           LAMBDA sub :
             [overflow |-> sub.overflow,
              trees |-> Append(acc.trees, DependencyTree(graph.keys[d], dep, sub.trees)),
              visited |-> acc.visited \cup {graph.keys[d]}])

CollectImportedBy(graph, depth, currentDepth, dep, acc) ==
  IF ~MapHas(graph, dep) THEN acc
  ELSE Let(collectDependencies(MapGet(graph, dep), graph, "importedBy", depth,
                               currentDepth + 1, acc.visited \cup {dep}),
           LAMBDA sub :
             [overflow |-> sub.overflow,
              trees |-> Append(acc.trees,
                               DependencyTree(dep, MapGet(graph, dep).relativePath,
                                              sub.trees)),
              visited |-> acc.visited \cup {dep}])

RECURSIVE CollectLoop(_, _, _, _, _, _, _)
CollectLoop(graph, direction, depth, currentDepth, dependencies, i, acc) ==
  IF i > Len(dependencies) \/ acc.overflow THEN acc
  ELSE CollectLoop(graph, direction, depth, currentDepth, dependencies, i + 1,
         CASE dependencies[i] \in acc.visited -> acc
           [] direction = "imports" ->
                CollectImport(graph, depth, currentDepth, dependencies[i],
                              FindDepNode(graph, dependencies[i], 1), acc)
           [] OTHER ->
                CollectImportedBy(graph, depth, currentDepth, dependencies[i], acc))

collectDependencies(node, graph, direction, depth, currentDepth, visited) ==
  CASE currentDepth > StackLimit -> Collected(TRUE, <<>>)
    [] ~depth.null /\ currentDepth >= depth.n -> Collected(FALSE, <<>>)
    [] OTHER ->
         Let(CollectLoop(graph, direction, depth, currentDepth,
                         IF direction = "imports" THEN node.imports ELSE node.importedBy,
                         1, [overflow |-> FALSE, trees |-> <<>>, visited |-> visited]),
             LAMBDA acc : Collected(acc.overflow, IF acc.overflow THEN <<>> ELSE acc.trees))

---------------------------------------------------------------------------
(* Projects: the file systems, analyzer options and input lists explored   *)

RootDir == <<"/", "r">>
SrcDir == <<"/", "r", "/", "s", "r", "c">>

AVue == RootDir \o <<"/", "A">> \o ExtVue
BVue == RootDir \o <<"/", "B">> \o ExtVue
CVue == RootDir \o <<"/", "C">> \o ExtVue
GoneVue == RootDir \o <<"/", "g", "o", "n", "e">> \o ExtVue
VuePkgDir == RootDir \o Slash \o NodeModulesStr \o <<"/", "v", "u", "e">>
VuePkgJson == VuePkgDir \o Slash \o PackageJsonStr
VuePkgMain == VuePkgDir \o <<"/", "v">> \o ExtJs
ATs == SrcDir \o <<"/", "a">> \o ExtTs
BTs == SrcDir \o <<"/", "b">> \o ExtTs
LibIndexTs == SrcDir \o <<"/", "l", "i", "b", "/">> \o IndexStr \o ExtTs

Options(rootDir, baseUrl, paths, resolveNodeModules) ==
  [rootDir |-> rootDir, baseUrl |-> baseUrl, paths |-> paths,
   resolveNodeModules |-> resolveNodeModules]

\* the options of the stats command: baseUrl 'src', paths { '@/*': ['src/*'] }
StatsOptions(directory) ==
  Options(directory, <<"s", "r", "c">>,
          <<[alias |-> <<"@", "/", "*">>, targets |-> <<<<"s", "r", "c", "/", "*">>>>]>>,
          "default")

\* A.vue and B.vue import each other by relative specifiers; A.vue imports
\* B.vue twice and the package vue; C.vue is not a valid SFC
RelativeProject ==
  [files |->
     (AVue :> VueSetup(<<Stmt("default", <<".", "/", "B">> \o ExtVue),
                         Stmt("named", <<".", "/", "B">>),
                         Stmt("default", <<"v", "u", "e">>),
                         Stmt("side", <<".", "/", "g", "o", "n", "e">>)>>))
     @@ (BVue :> VueScript(<<Stmt("mixed", <<".", "/", "A">> \o ExtVue)>>))
     @@ (CVue :> VueMalformed)
     @@ (VuePkgJson :> PkgJson(<<"v">> \o ExtJs))
     @@ (VuePkgMain :> ScriptFile(<<>>)),
   options |-> Options(RootDir, Empty, <<>>, "default"),
   inputs |-> {<<AVue, BVue>>, <<BVue, AVue, CVue>>, <<AVue>>, <<BVue, GoneVue>>}]

\* A -> B, A -> C, B -> C, C -> A by specifiers relative to baseUrl
BareProject ==
  [files |->
     (AVue :> VueScript(<<Stmt("default", <<"B">> \o ExtVue),
                          Stmt("default", <<"C">> \o ExtVue)>>))
     @@ (BVue :> VueScript(<<Stmt("named", <<"C">> \o ExtVue)>>))
     @@ (CVue :> VueSetup(<<Stmt("side", <<"A">> \o ExtVue)>>)),
   options |-> Options(RootDir, Empty, <<>>, "default"),
   inputs |-> {<<AVue, BVue, CVue>>, <<CVue, BVue, AVue>>, <<AVue, CVue>>, <<BVue>>}]

\* the stats command run on '.': a.ts and b.ts import each other through the
\* alias, a.ts imports itself, b.ts imports the directory lib
AliasProject ==
  [files |->
     (ATs :> ScriptFile(<<Stmt("side", <<".", "/", "a">>),
                          Stmt("named", <<"@", "/", "b">>)>>))
     @@ (BTs :> ScriptFile(<<Stmt("default", <<"@", "/", "a">> \o ExtTs),
                             Stmt("default", <<"l", "i", "b">>)>>))
     @@ (LibIndexTs :> ScriptFile(<<>>)),
   options |-> StatsOptions(Dot),
   inputs |-> {<<ATs, BTs>>, <<BTs, ATs, LibIndexTs>>, <<ATs, ATs>>, <<LibIndexTs>>}]

Projects == {RelativeProject, BareProject, AliasProject}

BaseDir == RootDir \o <<"/", "b", "a", "s", "e">>
LibDir == RootDir \o <<"/", "l", "i", "b">>
AtB == <<"@", "/", "b">>
AtC == <<"@", "/", "c">>
AtD == <<"@", "/", "d">>
AtE == <<"@", "/", "e">>
TildeB == <<"~", "/", "b">>

\* baseUrl 'base', paths { '@/*': ['lib/*', 'src/*'], '~/*': ['src/*'] }.
\* '@/b' and '~/b' have the alias target src/b.ts, '@/c' has lib/c.ts and
\* src/c.ts, '@/d' and '@/e' have no alias target; node_modules and baseUrl
\* hold files for the same specifiers
ShadowProject ==
  [files |->
     (BTs :> ScriptFile(<<Stmt("default", AtB), Stmt("default", AtC),
                          Stmt("default", AtD), Stmt("default", AtE),
                          Stmt("default", TildeB)>>))
     @@ (SrcDir \o <<"/", "c">> \o ExtTs :> ScriptFile(<<>>))
     @@ (LibDir \o <<"/", "c">> \o ExtTs :> ScriptFile(<<>>))
     @@ (RootDir \o Slash \o NodeModulesStr \o Slash \o AtB \o ExtTs :> ScriptFile(<<>>))
     @@ (RootDir \o Slash \o NodeModulesStr \o Slash \o AtE \o ExtTs :> ScriptFile(<<>>))
     @@ (BaseDir \o Slash \o AtB \o ExtTs :> ScriptFile(<<>>))
     @@ (BaseDir \o Slash \o AtD \o ExtTs :> ScriptFile(<<>>))
     @@ (BaseDir \o Slash \o AtE \o ExtTs :> ScriptFile(<<>>)),
   options |-> Options(RootDir, <<"b", "a", "s", "e">>,
                       <<[alias |-> <<"@", "/", "*">>,
                          targets |-> <<<<"l", "i", "b", "/", "*">>, <<"s", "r", "c", "/", "*">>>>],
                         [alias |-> <<"~", "/", "*">>,
                          targets |-> <<<<"s", "r", "c", "/", "*">>>>]>>,
                       "default"),
   inputs |-> {<<BTs>>}]

SubDir == SrcDir \o <<"/", "s", "u", "b">>
XTs == SubDir \o <<"/", "x">> \o ExtTs
PkgP == <<"p">>
PkgN == <<"n">>
PkgM == <<"m">>
DotE == <<".", "/", "e">>
DotF == <<".", "/", "f">>
DotG == <<".", "/", "g">>

\* the script file name.js of the node_modules directory of dir
ModuleJs(dir, name) == dir \o Slash \o NodeModulesStr \o Slash \o name \o ExtJs

\* no baseUrl, no aliases. src/sub/x.ts imports the packages p (in the
\* node_modules of the root, of src and of src/sub), n (of src and src/sub)
\* and m (of src), and './f' (f.ts, f.js, f.json), './g' (a directory with
\* index.tsx and index.js) and './e' (e.ts, e.js and a directory e.vue)
LayoutProject ==
  [files |->
     (XTs :> ScriptFile(<<Stmt("default", PkgP), Stmt("default", PkgN),
                          Stmt("default", PkgM), Stmt("default", DotE),
                          Stmt("default", DotF), Stmt("default", DotG)>>))
     @@ (ModuleJs(RootDir, PkgP) :> ScriptFile(<<>>))
     @@ (ModuleJs(SrcDir, PkgP) :> ScriptFile(<<>>))
     @@ (ModuleJs(SubDir, PkgP) :> ScriptFile(<<>>))
     @@ (ModuleJs(SrcDir, PkgN) :> ScriptFile(<<>>))
     @@ (ModuleJs(SubDir, PkgN) :> ScriptFile(<<>>))
     @@ (ModuleJs(SrcDir, PkgM) :> ScriptFile(<<>>))
     @@ (SubDir \o <<"/", "f">> \o ExtTs :> ScriptFile(<<>>))
     @@ (SubDir \o <<"/", "f">> \o ExtJs :> ScriptFile(<<>>))
     @@ (SubDir \o <<"/", "f">> \o ExtJson :> PkgJson(Empty))
     @@ (SubDir \o <<"/", "g">> \o Slash \o IndexStr \o ExtTsx :> ScriptFile(<<>>))
     @@ (SubDir \o <<"/", "g">> \o Slash \o IndexStr \o ExtJs :> ScriptFile(<<>>))
     @@ (SubDir \o <<"/", "e">> \o ExtVue \o <<"/", "k">> \o ExtTs :> ScriptFile(<<>>))
     @@ (SubDir \o <<"/", "e">> \o ExtTs :> ScriptFile(<<>>))
     @@ (SubDir \o <<"/", "e">> \o ExtJs :> ScriptFile(<<>>)),
   options |-> Options(RootDir, Empty, <<>>, "default"),
   inputs |-> {<<XTs>>}]

\* the projects resolve() is called under
ResolverProjects == Projects \cup {ShadowProject, LayoutProject}

---------------------------------------------------------------------------
(* State                                                                   *)

\* the number of graphs callers keep from getGraph()
MaxReturned == 1

VARIABLES
  fs,        \* the file system
  options,   \* the DependencyAnalyzerOptions the analyzer was constructed with
  inputs,    \* the file lists analyze() is called with
  re,        \* lastIndex of each module-level global-flag regular expression
  heap,      \* the Map and Set objects alive, by reference
  graph,     \* this.graph: the references of its nodes Map and edges Set
  returned,  \* the graphs getGraph() returned, each with its content then
  runs,      \* the last two analyze() calls: file list, node ids, edges
  found,     \* what findCircularDependencies reported for the held graph, if called
  res,       \* the last PathResolver.resolve call: arguments and result
  parsed,    \* the last parseFile call: argument and result
  collected  \* the last collectDependencies call of the deps command

vars == <<fs, options, inputs, re, heap, graph, returned, runs, found, res, parsed,
          collected>>

\* no call made yet
NoCall == [called |-> FALSE]

\* the smallest reference not in use
FreshRef(used) == CHOOSE r \in 1..(Cardinality(used) + 1) :
                    r \notin used /\ \A q \in 1..(r - 1) : q \in used

\* analyze refilling the held Map and Set objects instead of creating new ones
AllocGraphInPlace(h, held) == held

\* const graph = { nodes: new Map(), edges: new Set() }: two new objects
AllocGraph(h, held) ==
  LET n == FreshRef(DOMAIN h) IN
  [nodes |-> n, edges |-> FreshRef(DOMAIN h \cup {n})]

\* the objects still referenced by the analyzer or by a caller
Live(g, ret) ==
  {g.nodes, g.edges} \cup {r.nodes : r \in ret} \cup {r.edges : r \in ret}

Range(seq) == {seq[i] : i \in 1..Len(seq)}

\* the module-level regular expressions that carry a lastIndex between calls
GlobalRegexes == Range(IMPORT_REGEX) \cup Range(EXPORT_REGEX)

Init ==
  /\ \E p \in Projects : fs = p.files /\ options = p.options /\ inputs = p.inputs
  /\ re = [regex \in GlobalRegexes |-> 0]
  /\ heap = (1 :> EmptyMap) @@ (2 :> EmptySet)
  /\ graph = [nodes |-> 1, edges |-> 2]
  /\ returned = {}
  /\ runs = <<>>
  /\ found = NoCall
  /\ res = NoCall
  /\ parsed = NoCall
  /\ collected = NoCall

\* analyzer.analyze(fileList)
Analyze(fileList) ==
  \E b \in {BuildGraph(fs, re, DependencyAnalyzer(options),
                       [nodes |-> heap[graph.nodes], edges |-> heap[graph.edges]],
                       fileList)} :
    LET g == AllocGraph(heap, graph)
        h == (g.nodes :> b.graph.nodes) @@ (g.edges :> b.graph.edges) @@ heap IN
    /\ graph' = g
    /\ heap' = [r \in Live(g, returned) |-> h[r]]
    /\ re' = b.re
    /\ runs' = LET run == [files |-> fileList, nodes |-> Range(b.graph.nodes.keys),
                           edges |-> Range(b.graph.edges)] IN
               IF Len(runs) < 2 THEN Append(runs, run) ELSE <<runs[2], run>>
    /\ found' = NoCall
    /\ collected' = NoCall
    /\ UNCHANGED <<fs, options, inputs, returned, res, parsed>>

\* analyzer.getGraph(): a new object holding the same Map and Set
GetGraph ==
  /\ Cardinality(returned) < MaxReturned
  /\ returned' = returned \cup
       {[nodes |-> graph.nodes, edges |-> graph.edges,
         seenNodes |-> heap[graph.nodes], seenEdges |-> heap[graph.edges]]}
  /\ UNCHANGED <<fs, options, inputs, re, heap, graph, runs, found, res, parsed, collected>>

\* findCircularDependencies(analyzer.getGraph().nodes), as the stats command
\* calls it
FindCircular ==
  /\ found' = [called |-> TRUE, nodes |-> heap[graph.nodes], edges |-> heap[graph.edges],
               cycles |-> findCircularDependencies(heap[graph.nodes]),
               steps |-> Detect(heap[graph.nodes]).steps]
  /\ UNCHANGED <<fs, options, inputs, re, heap, graph, returned, runs, res, parsed, collected>>

Next ==
  \/ \E fileList \in inputs : Analyze(fileList)
  \/ GetGraph
  \/ FindCircular

Spec == Init /\ [][Next]_vars

\* the deps command: collectDependencies(node, graph.nodes, direction,
\* maxDepth) for the node of the target file
CollectDeps(target, direction, depth) ==
  /\ MapHas(heap[graph.nodes], target)
  /\ collected' = [called |-> TRUE, target |-> target, direction |-> direction,
                   depth |-> depth, nodes |-> heap[graph.nodes],
                   result |-> collectDependencies(MapGet(heap[graph.nodes], target),
                                                  heap[graph.nodes], direction,
                                                  maxDepth(depth), 0, {})]
  /\ UNCHANGED <<fs, options, inputs, re, heap, graph, returned, runs, found, res, parsed>>

NextDeps ==
  \/ \E fileList \in inputs : Analyze(fileList)
  \/ \E target \in Range(heap[graph.nodes].keys), direction \in {"imports", "importedBy"},
        depth \in {"all", "1", "2"} :
       CollectDeps(target, direction, depth)

SpecDeps == Init /\ [][NextDeps]_vars
---------------------------------------------------------------------------
(* The resolver on its own: resolve() called with any of the specifiers    *)
(* and importing files below, under each project and both settings of      *)
(* resolveNodeModules                                                      *)

\* the specifiers written in the project's files
SourcesOf(files) ==
  UNION {{files[f].stmts[i].source : i \in 1..Len(files[f].stmts)} : f \in DOMAIN files}

Specifiers(files) ==
  SourcesOf(files) \cup {Empty, Undefined, BVue, <<"#", "x">>, <<".", ".", "/", "r", "/", "A">>}

ImportingFiles(files) == (DOMAIN files) \cup {Undefined, <<"A">> \o ExtVue}

InitResolver ==
  /\ \E p \in ResolverProjects : \E nm \in {"default", "false"} :
       /\ fs = p.files
       /\ options = [p.options EXCEPT !.resolveNodeModules = nm]
       /\ inputs = p.inputs
  /\ re = [regex \in GlobalRegexes |-> 0]
  /\ heap = (1 :> EmptyMap) @@ (2 :> EmptySet)
  /\ graph = [nodes |-> 1, edges |-> 2]
  /\ returned = {}
  /\ runs = <<>>
  /\ found = NoCall
  /\ res = NoCall
  /\ parsed = NoCall
  /\ collected = NoCall

\* new PathResolver(options).resolve(importPath, fromFile)
Resolve(importPath, fromFile) ==
  /\ res' = [called |-> TRUE, importPath |-> importPath, fromFile |-> fromFile,
             result |-> PathResolver_resolve(fs, PathResolver(options), importPath, fromFile)]
  /\ UNCHANGED <<fs, options, inputs, re, heap, graph, returned, runs, found, parsed, collected>>

NextResolver ==
  \E importPath \in Specifiers(fs) : \E fromFile \in ImportingFiles(fs) :
    Resolve(importPath, fromFile)

SpecResolver == InitResolver /\ [][NextResolver]_vars

---------------------------------------------------------------------------
(* The parser on its own: parseFile() called for a Vue, script or          *)
(* definition file with any of the contents below, or for a path that      *)
(* cannot be read                                                          *)

\* the longest list of import statements a generated block holds
MaxStmts == 2

SpecX == <<".", "/", "x">>
SpecY == <<"y">>

\* the import statements a block is generated from
StmtChoices == {Stmt(kind, source) : kind \in {"default", "named", "mixed", "side"},
                                     source \in {SpecX, SpecY}}

StmtSeqs == UNION {[1..n -> StmtChoices] : n \in 0..MaxStmts}

ExportSeqs ==
  {<<>>,
   <<Export("default", <<>>)>>,
   <<Export("declaration", <<"a">>), Export("list", <<"b", "c">>)>>,
   <<Export("list", <<"b">>), Export("default", <<>>), Export("declaration", <<"a">>)>>}

\* the contents of the script files parsed
ScriptContents == {Block(stmts, exports, NoSignals) : stmts \in StmtSeqs, exports \in ExportSeqs}

\* the contents of the blocks of the Vue files parsed
BlockContents ==
  {NoContent,
   Block(<<>>, <<>>, OptionsText),
   Block(<<Stmt("default", SpecX)>>, <<Export("declaration", <<"a">>)>>, OptionsText),
   Block(<<Stmt("side", SpecY)>>, <<Export("list", <<"b", "c">>)>>, CompositionText),
   Block(<<Stmt("named", SpecX), Stmt("default", SpecY)>>, <<Export("default", <<>>)>>, MixedText)}

\* descriptor.script / descriptor.scriptSetup of the Vue files parsed
SfcBlocks ==
  {Absent}
  \cup {SfcBlock(content, lang) : content \in BlockContents, lang \in {"", "ts"}}
  \cup {SfcBlock(Block(<<>>, <<>>, OptionsText), lang) :
          lang \in {"typescript", "js", "javascript", "coffee"}}

\* the text of the Vue files parsed outside their script blocks
OtherContents ==
  {NoContent, Block(<<Stmt("default", SpecY)>>, <<Export("declaration", <<"z">>)>>, NoSignals)}

\* the raw-text signals of the script texts classified: no import from
\* 'vue', or one `import { ... } from 'vue'` statement naming 1, 9, 10 or 11
\* specifiers, with or without a name of compositionImports among them
RawTexts ==
  {[NoSignals EXCEPT !.vueImportParts = n, !.vueImportApi = api /\ n > 0,
                     !.rawRender = render] :
     n \in {0, 1, 9, 10, 11}, api \in BOOLEAN, render \in BOOLEAN}

\* their composition and options signals
ApiTexts ==
  {NoSignals, OptionsText, CompositionText, MixedText,
   [NoSignals EXCEPT !.cleanVueImport = TRUE],
   [NoSignals EXCEPT !.defineAsyncComponent = TRUE, !.otherOptions = TRUE],
   [NoSignals EXCEPT !.defineComponent = TRUE, !.otherOptions = TRUE],
   [NoSignals EXCEPT !.composable = TRUE, !.dynamicOptions = TRUE]}

\* their functional and class signals
ShapeTexts ==
  {[NoSignals EXCEPT !.functionalTrue = a, !.defaultFunction = b,
                     !.classExtends = c, !.componentDecorator = d] :
     a \in BOOLEAN, b \in BOOLEAN, c \in BOOLEAN, d \in BOOLEAN}

\* a text holding the signals of all three
Together(raw, api, shape) ==
  [f \in DOMAIN NoSignals |->
     IF f = "vueImportParts" THEN raw[f] ELSE raw[f] \/ api[f] \/ shape[f]]

\* the script texts classified: a default export, the import from 'vue' when
\* there is one, and the signals
SignalContents ==
  {Block(IF raw.vueImportParts > 0 THEN <<Stmt("named", <<"v", "u", "e">>)>> ELSE <<>>,
         <<Export("default", <<>>)>>, Together(raw, api, shape)) :
     raw \in RawTexts, api \in ApiTexts, shape \in ShapeTexts}

PVue == RootDir \o <<"/", "P">> \o ExtVue
PTs == RootDir \o <<"/", "p">> \o ExtTs
PDTs == RootDir \o <<"/", "p">> \o ExtDTs
GoneTs == RootDir \o <<"/", "g", "o", "n", "e">> \o ExtTs
GoneDTs == RootDir \o <<"/", "g", "o", "n", "e">> \o ExtDTs
\* directories named like files
DirVue == RootDir \o <<"/", "d">> \o ExtVue
DirTs == RootDir \o <<"/", "d">> \o ExtTs

\* the files that make DirVue and DirTs directories
Dirs == (DirVue \o <<"/", "x">> \o ExtTs :> ScriptFile(<<>>))
        @@ (DirTs \o <<"/", "x">> \o ExtTs :> ScriptFile(<<>>))

ParserFileSystems ==
  {(path :> ScriptText(content)) @@ Dirs : path \in {PTs, PDTs}, content \in ScriptContents}
  \cup {(PVue :> VueFile(script, setup, other)) @@ Dirs :
          script \in SfcBlocks, setup \in SfcBlocks, other \in OtherContents}
  \cup {(PVue :> VueFile(SfcBlock(content, ""), Absent, NoContent)) @@ Dirs :
          content \in SignalContents}
  \cup {(PVue :> VueMalformed) @@ Dirs}

\* the paths parseFile is called with: the file, missing files and directories
ParseTargets == {PVue, PTs, PDTs, GoneVue, GoneTs, GoneDTs, DirVue, DirTs}

InitParser ==
  /\ fs \in ParserFileSystems
  /\ options = Options(RootDir, Empty, <<>>, "default")
  /\ inputs = {}
  /\ re = [regex \in GlobalRegexes |-> 0]
  /\ heap = (1 :> EmptyMap) @@ (2 :> EmptySet)
  /\ graph = [nodes |-> 1, edges |-> 2]
  /\ returned = {}
  /\ runs = <<>>
  /\ found = NoCall
  /\ res = NoCall
  /\ parsed = NoCall
  /\ collected = NoCall

\* parseFile(filePath)
ParseFile(filePath) ==
  \E p \in {parseFile(fs, re, filePath)} :
    /\ parsed' = [called |-> TRUE, filePath |-> filePath, thrown |-> p.thrown,
                  result |-> p.result]
    /\ re' = p.re
    /\ UNCHANGED <<fs, options, inputs, heap, graph, returned, runs, found, res, collected>>

NextParser == \E filePath \in ParseTargets : ParseFile(filePath)

SpecParser == InitParser /\ [][NextParser]_vars

---------------------------------------------------------------------------
(* Properties                                                              *)

\* the content of the graph the analyzer holds
Held == [nodes |-> heap[graph.nodes], edges |-> heap[graph.edges]]

Analyzed == Len(runs) > 0

LastRun == runs[Len(runs)]

HasEdge(edges, a, b) == \E i \in 1..Len(edges) : edges[i] = DependencyEdge(a, b)

Keys(nodes) == Range(nodes.keys)

\* C1: after analyze(), for all nodes A and B of the graph there is an edge
\* (A, B, 'import') exactly when B's importedBy list contains A.
C1_EdgeIffImportedBy ==
  Analyzed =>
    \A a \in Keys(Held.nodes), b \in Keys(Held.nodes) :
      HasEdge(Held.edges, a, b) <=> a \in Range(MapGet(Held.nodes, b).importedBy)

\* an analysis left an edge between two nodes, recorded on the target, and a
\* pair of nodes without an edge
C1_Witness ==
  /\ Analyzed
  /\ \E a \in Keys(Held.nodes), b \in Keys(Held.nodes) :
       HasEdge(Held.edges, a, b) /\ a \in Range(MapGet(Held.nodes, b).importedBy)
  /\ \E a \in Keys(Held.nodes), b \in Keys(Held.nodes) :
       ~HasEdge(Held.edges, a, b) /\ a \notin Range(MapGet(Held.nodes, b).importedBy)

\* C2: the edge set never holds two edges with the same (from, to, type).
C2_NoDuplicateEdges ==
  \A i \in 1..Len(Held.edges), j \in 1..Len(Held.edges) :
    i # j => Held.edges[i] # Held.edges[j]

\* C3: after analyze(), both endpoints of every edge are ids of nodes.
C3_EdgeEndpointsAreNodes ==
  Analyzed =>
    \A i \in 1..Len(Held.edges) :
      Held.edges[i].from \in Keys(Held.nodes) /\ Held.edges[i].to \in Keys(Held.nodes)

\* parsing the file produces no error: it can be read and, for a .vue file,
\* the SFC splitter reports no errors
ParsesWithoutError(f) ==
  Readable(fs, f) /\ (endsWith(f, ExtVue) => ~ReadFile(fs, f).sfcErrors)

\* C4: after analyze(files) a path is a key of nodes exactly when it is in
\* the input list and parsing it produced no error, whatever else the list holds.
C4_NodesAreParsedInputs ==
  Analyzed =>
    Keys(Held.nodes) = {f \in Range(LastRun.files) : ParsesWithoutError(f)}

\* an analysis whose list held a file that does not parse and one that does
C4_Witness ==
  /\ Analyzed
  /\ \E f \in Range(LastRun.files) : ~ParsesWithoutError(f)
  /\ Keys(Held.nodes) # {}

\* C5: two analyze() calls in a row with the same file list give the same node
\* ids and the same (from, to, type) edges (the file system never changes).
C5_Idempotent ==
  (Len(runs) = 2 /\ runs[1].files = runs[2].files) =>
    runs[1].nodes = runs[2].nodes /\ runs[1].edges = runs[2].edges

\* the same list analyzed twice, with edges found
C5_Witness ==
  /\ Len(runs) = 2
  /\ runs[1].files = runs[2].files
  /\ runs[2].edges # {}

\* the graph a newly constructed analyzer builds for fileList
FreshGraph(fileList) ==
  BuildGraph(fs, [regex \in GlobalRegexes |-> 0], DependencyAnalyzer(options),
             [nodes |-> EmptyMap, edges |-> EmptySet], fileList).graph

\* C6: after analyze(F1) and then analyze(F2) the held graph is the graph of
\* F2 alone: its nodes, edges and importedBy lists are those a new analyzer
\* builds for F2, and all of them name files of F2 only.
C6_HeldGraphIsOfLastList ==
  Analyzed =>
    /\ Held = FreshGraph(LastRun.files)
    /\ Keys(Held.nodes) \subseteq Range(LastRun.files)
    /\ \A i \in 1..Len(Held.edges) : Held.edges[i].from \in Range(LastRun.files)
    /\ \A i \in 1..Len(Held.nodes.val) :
         Range(Held.nodes.val[i].importedBy) \subseteq Range(LastRun.files)

\* a second analysis whose list lacks a file that was a node of the first,
\* with edges in both
C6_Witness ==
  /\ Len(runs) = 2
  /\ ~(runs[1].nodes \subseteq Range(runs[2].files))
  /\ runs[1].edges # {}
  /\ runs[2].edges # {}

\* C7: a graph returned by getGraph() keeps the node map, the importedBy
\* lists and the edge set it had when it was returned, whatever analyze()
\* calls follow.
C7_ReturnedGraphUnchanged ==
  \A r \in returned : heap[r.nodes] = r.seenNodes /\ heap[r.edges] = r.seenEdges

\* a graph with nodes was returned and a later analyze() built another graph
C7_Witness ==
  \E r \in returned :
    /\ Len(r.seenNodes.keys) > 0
    /\ Len(r.seenEdges) > 0
    /\ r.nodes # graph.nodes
    /\ Held.nodes # r.seenNodes

\* C8: when the graph has the edges A -> B and B -> A between two nodes, the
\* cycle detector's result contains a chain equivalent to [A, B, A].
C8_MutualImportReported ==
  found.called =>
    \A a \in Keys(found.nodes), b \in Keys(found.nodes) :
      (a # b /\ HasEdge(found.edges, a, b) /\ HasEdge(found.edges, b, a)) =>
        \E i \in 1..Len(found.cycles) : found.cycles[i] \in {<<a, b, a>>, <<b, a, b>>}

\* the import relation the detector traverses: a -> b when an import
\* specifier of a matches node b
Traversed(nodes) ==
  UNION {{<<nodes.keys[k], nodes.keys[FindDepNode(nodes, nodes.val[k].imports[j], 1)]>> :
            j \in {j \in 1..Len(nodes.val[k].imports) :
                     FindDepNode(nodes, nodes.val[k].imports[j], 1) # 0}} :
         k \in 1..Len(nodes.keys)}

\* the elementary cycles of rel over the set K: sequences of distinct nodes,
\* each followed by its successor and the last by the first
ElementaryCycles(K, rel) ==
  {c \in UNION {[1..n -> K] : n \in 1..Cardinality(K)} :
     /\ \A i \in DOMAIN c, j \in DOMAIN c : i # j => c[i] # c[j]
     /\ \A i \in DOMAIN c : <<c[i], c[(i % Len(c)) + 1]>> \in rel}

\* chain lists the nodes of cycle c from some rotation, closed by its first node
ChainOf(chain, c) ==
  /\ Len(chain) = Len(c) + 1
  /\ chain[Len(chain)] = chain[1]
  /\ \E k \in 0..(Len(c) - 1) :
       \A j \in 1..Len(c) : chain[j] = c[((j - 1 + k) % Len(c)) + 1]

\* C9: the detector returns all elementary cycles of the import relation
\* over the node map: each has a chain listing its nodes up to rotation,
\* closed by the repeated first node.
C9_AllElementaryCyclesReported ==
  found.called =>
    \A c \in ElementaryCycles(Keys(found.nodes), Traversed(found.nodes)) :
      \E i \in 1..Len(found.cycles) : ChainOf(found.cycles[i], c)

\* C10: resolve never throws, and its result is either a non-null
\* resolvedPath without an error or a null resolvedPath with an error string.
C10_ResolveTotalAndTagged ==
  res.called =>
    /\ ~res.result.thrown
    /\ \/ res.result.resolvedPath # Null /\ res.result.error = NoError
       \/ res.result.resolvedPath = Null /\ res.result.error # NoError

\* a call in which dirname(fromFile) raised a TypeError that resolve turned
\* into a failure result
C10_Witness ==
  /\ res.called
  /\ res.fromFile = Undefined
  /\ res.result = Failure("TypeError", Empty)

\* the resolver of the call in res
ThisResolver == PathResolver(options)

\* alias k of the configuration has a prefix importPath starts with
AliasMatches(k, importPath) ==
  startsWith(importPath, StripStar(ThisResolver.paths[k].alias))

\* the result of probing target i of alias k for importPath
AliasProbe(k, i, importPath) ==
  resolveWithExtension(fs,
    resolve(<<ThisResolver.rootDir, StripStar(ThisResolver.paths[k].targets[i]),
              SubSeq(importPath, Len(StripStar(ThisResolver.paths[k].alias)) + 1,
                     Len(importPath))>>))

\* the (alias, target) pairs of the configuration, in declared order
AliasPairs ==
  {<<k, i>> \in (1..Len(ThisResolver.paths)) \X (1..3) : i <= Len(ThisResolver.paths[k].targets)}

\* target i of alias k matches importPath and probes successfully
AliasHit(k, i, importPath) ==
  AliasMatches(k, importPath) /\ Truthy(AliasProbe(k, i, importPath).resolvedPath)

\* <<k, i>> is the first pair, in declared order, that hits
FirstAliasHit(k, i, importPath) ==
  /\ AliasHit(k, i, importPath)
  /\ \A q \in AliasPairs :
       (q[1] < k \/ (q[1] = k /\ q[2] < i)) => ~AliasHit(q[1], q[2], importPath)

\* C11: when a specifier matches a configured alias prefix and some alias
\* target probes successfully, resolve returns the first such target in
\* declared order, also when node_modules/<specifier> or
\* <baseUrl>/<specifier> exists.
C11_FirstAliasTargetWins ==
  res.called =>
    \A q \in AliasPairs :
      FirstAliasHit(q[1], q[2], res.importPath) =>
        res.result = AliasProbe(q[1], q[2], res.importPath)

\* importPath matches some configured alias prefix and no alias target probes
AllAliasTargetsFail(importPath) ==
  /\ \E k \in 1..Len(ThisResolver.paths) : AliasMatches(k, importPath)
  /\ \A q \in AliasPairs : ~AliasHit(q[1], q[2], importPath)

\* the result of probing <baseUrl>/<specifier>
BaseUrlProbe(importPath) ==
  resolveWithExtension(fs, resolve(<<ThisResolver.baseUrl, importPath>>))

\* the directories from dir upward that lie below the root
RECURSIVE DirsBelowRoot(_)
DirsBelowRoot(dir) ==
  IF dir \in {ThisResolver.rootDir, Slash, Dot} THEN {}
  ELSE {dir} \cup DirsBelowRoot(dirname(dir))

\* node_modules/<specifier> probes successfully in the root or in a
\* directory from the importing file's upward
NodeModulesHit(importPath, fromFile) ==
  \E d \in {ThisResolver.rootDir} \cup DirsBelowRoot(dirname(fromFile)) :
    Truthy(resolveWithExtension(fs, join(<<d, NodeModulesStr, importPath>>)).resolvedPath)

\* a call with a string fromFile and a specifier that matches an alias
\* prefix, has no alias target that probes, and probes as <baseUrl>/<specifier>
C12_Case ==
  /\ res.called
  /\ res.fromFile # Undefined
  /\ AllAliasTargetsFail(res.importPath)
  /\ Truthy(BaseUrlProbe(res.importPath).resolvedPath)

\* C12 as stated: for every resolver configuration, when a specifier matches
\* a configured alias prefix and every alias target fails to probe, resolve
\* returns <baseUrl>/<specifier> whenever that path probes successfully.
C12_FallsBackToBaseUrl ==
  C12_Case => res.result = BaseUrlProbe(res.importPath)

\* C12 (amended): with node_modules resolution enabled, when a non-empty
\* specifier that is not absolute and does not start with '.' matches a
\* configured alias prefix, every alias target fails to probe and no
\* node_modules/<specifier> of the root or of a directory above the importing
\* file probes, resolve returns <baseUrl>/<specifier> whenever that path
\* probes successfully.
C12_FallsBackAfterNodeModules ==
  (/\ C12_Case
   /\ ThisResolver.resolveNodeModules
   /\ isValidImportPath(res.importPath)
   /\ ~isAbsolute(res.importPath)
   /\ ~startsWith(res.importPath, Dot)
   /\ ~NodeModulesHit(res.importPath, res.fromFile))
    => res.result = BaseUrlProbe(res.importPath)

\* '@/d' resolved from a file in src: lib/d and src/d do not exist, no
\* node_modules holds it, and base/@/d.ts is returned
C12_Witness ==
  /\ C12_Case
  /\ ThisResolver.resolveNodeModules
  /\ ~NodeModulesHit(res.importPath, res.fromFile)
  /\ DirsBelowRoot(dirname(res.fromFile)) # {}
  /\ res.result = Resolved(BaseDir \o Slash \o AtD \o ExtTs)

\* the call in res returned what the first alias target that probes gave
ResolvedByAlias ==
  \E q \in AliasPairs :
    /\ FirstAliasHit(q[1], q[2], res.importPath)
    /\ res.result = AliasProbe(q[1], q[2], res.importPath)

\* C13: with resolveNodeModules=false, resolve of a specifier that is
\* non-empty, not absolute, does not start with '.' and is not resolved by an
\* alias returns null with the error 'node_modules resolution is disabled',
\* whatever the file system holds.
C13_DisabledNodeModules ==
  (/\ res.called
   /\ options.resolveNodeModules = "false"
   /\ isValidImportPath(res.importPath)
   /\ ~isAbsolute(res.importPath)
   /\ ~startsWith(res.importPath, Dot)
   /\ ~ResolvedByAlias)
    => res.result = Failure("node_modules resolution is disabled", Empty)

\* a bare specifier whose package exists in the root's node_modules, resolved
\* with node_modules resolution disabled
C13_Witness ==
  /\ res.called
  /\ options.resolveNodeModules = "false"
  /\ res.importPath = <<"v", "u", "e">>
  /\ res.fromFile \in DOMAIN fs
  /\ Truthy(resolveWithExtension(fs, join(<<ThisResolver.rootDir, NodeModulesStr,
                                            res.importPath>>)).resolvedPath)
  /\ res.result = Failure("node_modules resolution is disabled", Empty)

\* C14: resolve('', fromFile) returns resolvedPath null with the error
\* 'Invalid path', for every fromFile, configuration and file system.
C14_EmptyIsInvalid ==
  (res.called /\ res.importPath = Empty) => res.result = Failure("Invalid path", Empty)

\* resolve('', f) called for a file of a project with aliases and a baseUrl
C14_Witness ==
  /\ res.called
  /\ res.importPath = Empty
  /\ res.fromFile \in DOMAIN fs
  /\ Len(options.paths) > 0
  /\ options.baseUrl # Empty
  /\ res.result = Failure("Invalid path", Empty)

\* the content of the file parseFile was called for cannot be read
ReadFailed == parsed.called /\ ~Readable(fs, parsed.filePath)

\* C15: parseFile never throws; when the file's content cannot be read it
\* returns a ParseResult for that path with the error field set and no
\* imports, for Vue, script and definition files alike.
C15_ReadFailureIsAResult ==
  parsed.called =>
    /\ ~parsed.thrown
    /\ ReadFailed =>
         /\ parsed.result.filePath = parsed.filePath
         /\ parsed.result.type =
              (IF endsWith(parsed.filePath, ExtVue) THEN "vue" ELSE ScriptType(parsed.filePath))
         /\ parsed.result.error
         /\ parsed.result.imports = <<>>

\* parseFile called for a definition file that does not exist, in a file
\* system whose other files have import statements
C15_Witness ==
  /\ ReadFailed
  /\ parsed.filePath = GoneDTs
  /\ \E f \in DOMAIN fs : Len(fs[f].stmts) > 0
  /\ parsed.result.type = "definition"
  /\ parsed.result.error

\* C16: on a read failure the returned ParseResult has
\* exports = {hasDefault: false, named: []}, for every file kind.
C16_ReadFailureHasNoExports ==
  ReadFailed => parsed.result.exports = ExportInfo(FALSE, <<>>)

\* C17: a Vue file that has a script-setup block and parses without error has
\* scriptType 'composition', whatever the content of that block or of a plain
\* script block beside it.
C17_ScriptSetupIsComposition ==
  (/\ parsed.called
   /\ endsWith(parsed.filePath, ExtVue)
   /\ ~ReadFailed
   /\ ~parsed.result.error
   /\ ReadFile(fs, parsed.filePath).scriptSetup)
    => parsed.result.scriptType = "composition"

\* a Vue file parsed whose script-setup block is empty and whose plain script
\* block carries Options API signals
C17_Witness ==
  /\ parsed.called
  /\ parsed.filePath = PVue
  /\ ~ReadFailed
  /\ ~parsed.result.error
  /\ ReadFile(fs, PVue).scriptSetup
  /\ ReadFile(fs, PVue).setupBlock.content.blank
  /\ ReadFile(fs, PVue).scriptBlock.content.signals = OptionsText
  /\ parsed.result.scriptType = "composition"

\* the ImportStatements of the statements stmts, one per statement, in the
\* order of the text
InTextualOrder(stmts) ==
  [i \in 1..Len(stmts) |->
     [source |-> stmts[i].source, hasDefault |-> stmts[i].kind \in {"default", "mixed"}]]

\* C18: the imports list of a ParseResult lists the file's import statements
\* in the order in which they appear in the text, whatever mix of default,
\* named, combined and side-effect imports the file holds (stated for script
\* and definition files, whose text is the whole file).
C18_ImportsInTextualOrder ==
  (/\ parsed.called
   /\ ~endsWith(parsed.filePath, ExtVue)
   /\ ~ReadFailed)
    => parsed.result.imports = InTextualOrder(ReadFile(fs, parsed.filePath).stmts)

\* what the import and export extraction gives for a content on its own
Extracted(content) ==
  [imports |-> ImportLoops(content.stmts, [regex \in GlobalRegexes |-> 0], <<>>, 1).imports,
   named |-> ExportLoops(content.exports, [regex \in GlobalRegexes |-> 0], <<>>, 1).named]

\* C19: for a Vue file with both a plain script block and a script-setup
\* block, the reported imports and named exports are those extracted from the
\* script-setup block's content, and no others.
C19_OnlyScriptSetupIsExtracted ==
  (/\ parsed.called
   /\ endsWith(parsed.filePath, ExtVue)
   /\ ~ReadFailed
   /\ ~parsed.result.error
   /\ ReadFile(fs, parsed.filePath).script
   /\ ReadFile(fs, parsed.filePath).scriptSetup)
    => /\ parsed.result.imports =
            Extracted(ReadFile(fs, parsed.filePath).setupBlock.content).imports
       /\ parsed.result.exports.named =
            Extracted(ReadFile(fs, parsed.filePath).setupBlock.content).named

\* C20: every chain the cycle detector reports is a cycle of the recorded
\* graph: each consecutive pair (x, y) of the chain is an edge
\* (x, y, 'import') of the edge set analyze() built for the same node map.
C20_ReportedChainsAreGraphCycles ==
  found.called =>
    \A i \in 1..Len(found.cycles) :
      \A j \in 1..(Len(found.cycles[i]) - 1) :
        HasEdge(found.edges, found.cycles[i][j], found.cycles[i][j + 1])

\* the traversed import relation of the node map has a cycle, self-imports
\* included
HasCycle(nodes) == ElementaryCycles(Keys(nodes), Traversed(nodes)) # {}

\* C21: the cycle detector returns an empty list exactly when the import
\* relation it traverses (each raw specifier matched to a node of the map)
\* has no cycle; when the relation has a cycle, at least one chain is reported.
C21_EmptyIffAcyclic ==
  found.called => (found.cycles = <<>> <=> ~HasCycle(found.nodes))

\* the detector ran on a node map whose traversed relation has a cycle
\* through two or more nodes
C21_Witness ==
  /\ found.called
  /\ \E c \in ElementaryCycles(Keys(found.nodes), Traversed(found.nodes)) : Len(c) >= 2
  /\ found.cycles # <<>>

\* the observations of the detector's last run with the given event
StepsOf(event) == {i \in 1..Len(found.steps) : found.steps[i].event = event}

\* C22: the cycle detector terminates on every node map, cyclic or not: the
\* dfs body runs at most once for each node, so a run makes at most three
\* observations per node; at every step the recursion stack holds exactly
\* the nodes of the current path, and it is empty when a new root is started.
C22_DfsOncePerNodeStackIsPath ==
  found.called =>
    /\ \A i \in StepsOf("enter"), j \in StepsOf("enter") :
         found.steps[i].node = found.steps[j].node => i = j
    /\ Len(found.steps) <= 3 * Len(found.nodes.keys)
    /\ \A i \in StepsOf("call") :
         /\ found.steps[i].stack =
              Range(SubSeq(found.steps[i].path, 1, Len(found.steps[i].path) - 1))
         /\ Len(found.steps[i].path) = 1 => found.steps[i].stack = {}
    /\ \A i \in StepsOf("enter") : found.steps[i].stack = Range(found.steps[i].path)
    /\ \A i \in StepsOf("leave") :
         found.steps[i].stack = Range(found.steps[i].path) \ {found.steps[i].node}

\* a run over a cyclic node map that went three nodes deep
C22_Witness ==
  /\ found.called
  /\ found.cycles # <<>>
  /\ \E i \in StepsOf("enter") : Len(found.steps[i].path) = 3

\* the trees of a forest with the ids of the nodes above each of them
RECURSIVE Branches(_, _)
Branches(trees, above) ==
  UNION {{<<above, trees[i].path>>} \cup Branches(trees[i].children, Append(above, trees[i].path)) :
           i \in 1..Len(trees)}

\* C23: collectDependencies terminates for every graph and both directions
\* when the depth is unlimited ('all'), import cycles included: it returns a
\* forest, and no node occurs twice along one branch of that forest.
C23_CollectTerminatesOnCycles ==
  (collected.called /\ collected.depth = "all") =>
    /\ ~collected.result.overflow
    /\ \A b \in Branches(collected.result.trees, <<>>) : b[2] \notin Range(b[1])

\* C24: after analyze(), every entry of every node's importedBy list is the
\* id of a node of the graph, and no importedBy list holds the same importer
\* twice, even when that importer has several imports resolving to the node.
C24_ImportedByIdsWithoutRepeats ==
  Analyzed =>
    \A k \in 1..Len(Held.nodes.keys) :
      /\ Range(Held.nodes.val[k].importedBy) \subseteq Keys(Held.nodes)
      /\ \A i \in 1..Len(Held.nodes.val[k].importedBy),
            j \in 1..Len(Held.nodes.val[k].importedBy) :
           i # j => Held.nodes.val[k].importedBy[i] # Held.nodes.val[k].importedBy[j]

\* the directories whose node_modules is probed, in the order of the claim:
\* the root, then the directories from dir upward until the root is reached
RECURSIVE DirsUpward(_)
DirsUpward(dir) ==
  IF dir \in {ThisResolver.rootDir, Slash, Dot} THEN <<>>
  ELSE <<dir>> \o DirsUpward(dirname(dir))

ProbeOrder(fromFile) == <<ThisResolver.rootDir>> \o DirsUpward(dirname(fromFile))

\* the result of probing node_modules/<specifier> in directory dir
NodeModulesProbe(dir, importPath) ==
  resolveWithExtension(fs, join(<<dir, NodeModulesStr, importPath>>))

\* the call in res is for a bare specifier that no alias resolved, from an
\* importing file given as a string, with node_modules resolution enabled
C25_Case ==
  /\ res.called
  /\ options.resolveNodeModules = "default"
  /\ res.fromFile # Undefined
  /\ isValidImportPath(res.importPath)
  /\ ~isAbsolute(res.importPath)
  /\ ~startsWith(res.importPath, Dot)
  /\ ~ResolvedByAlias

\* C25: for a bare specifier with node_modules resolution enabled, the root's
\* node_modules/<specifier> is probed first and then the node_modules of each
\* directory from the importing file's upward; the result is that of the
\* first successful probe in that order, so the root's package wins over a
\* nested one nearer to the importer.
C25_RootThenAncestorsInOrder ==
  C25_Case =>
    \A i \in 1..Len(ProbeOrder(res.fromFile)) :
      (/\ Truthy(NodeModulesProbe(ProbeOrder(res.fromFile)[i], res.importPath).resolvedPath)
       /\ \A j \in 1..(i - 1) :
            ~Truthy(NodeModulesProbe(ProbeOrder(res.fromFile)[j], res.importPath).resolvedPath))
        => res.result = NodeModulesProbe(ProbeOrder(res.fromFile)[i], res.importPath)

\* the package p, present in the node_modules of the root, of src and of
\* src/sub, imported from src/sub/x.ts and resolved to the root's copy
C25_Witness ==
  /\ C25_Case
  /\ res.importPath = PkgP
  /\ res.fromFile = XTs
  /\ Truthy(NodeModulesProbe(SubDir, PkgP).resolvedPath)
  /\ res.result = Resolved(ModuleJs(RootDir, PkgP))

\* the base path resolve probes for a relative specifier of the call in res
RelativeBase == resolve(<<dirname(res.fromFile), res.importPath>>)

\* the positions in the extension list whose path Path(ext) is a file
FileExts(Path(_)) == {i \in 1..Len(extensions) : IsFile(fs, Path(extensions[i]))}

\* the file among the paths Path(ext) whose extension comes first in the list
FirstFile(Path(_)) ==
  Path(extensions[CHOOSE i \in FileExts(Path) : \A j \in FileExts(Path) : i <= j])

\* the call in res is for a relative specifier from an importing file given
\* as a string
C26_Case ==
  /\ res.called
  /\ res.fromFile # Undefined
  /\ res.importPath # Undefined
  /\ startsWith(res.importPath, Dot)

\* C26: when the base path does not exist but several files <base><ext>
\* exist, resolve returns the one whose extension comes first in the order
\* .vue, .ts, .tsx, .js, .jsx, .json; the same order decides among the
\* index.<ext> files of an existing directory.
C26_FirstExtensionWins ==
  /\ (/\ C26_Case
      /\ ~existsSync(fs, RelativeBase)
      /\ Cardinality(FileExts(LAMBDA ext : RelativeBase \o ext)) >= 2)
       => res.result = Resolved(FirstFile(LAMBDA ext : RelativeBase \o ext))
  /\ (/\ C26_Case
      /\ isDirectory(fs, RelativeBase)
      /\ FileExts(LAMBDA ext : join(<<RelativeBase, IndexStr \o ext>>)) # {})
       => res.result = Resolved(FirstFile(LAMBDA ext : join(<<RelativeBase, IndexStr \o ext>>)))

\* the language a lang attribute stands for; "" is an absent attribute
LangOf(lang) ==
  IF lang \in {"ts", "typescript"} THEN "ts"
  ELSE IF lang \in {"js", "javascript", ""} THEN "js"
  ELSE "unknown"

\* C27: for a Vue file with a script-setup block, scriptLang is determined by
\* that block's lang attribute alone: 'ts'/'typescript' gives ts,
\* 'js'/'javascript' or no attribute gives js, anything else gives unknown,
\* whatever the lang attribute of an accompanying plain script block.
C27_SetupLangAloneDecides ==
  (/\ parsed.called
   /\ endsWith(parsed.filePath, ExtVue)
   /\ ~ReadFailed
   /\ ~parsed.result.error
   /\ ReadFile(fs, parsed.filePath).scriptSetup)
    => parsed.result.scriptLang = LangOf(ReadFile(fs, parsed.filePath).setupBlock.lang)

\* every global-flag regular expression of the script parser is at the start
AtStart == [regex \in GlobalRegexes |-> 0]

\* C28: the result of parsing a file depends only on its path and content,
\* not on earlier calls: every shared global-flag regular expression has
\* lastIndex 0 whenever parseScript has returned, normally or through its
\* error branch, so the result is that of a call made with fresh regexes.
C28_RegexesRestAtStart ==
  /\ re = AtStart
  /\ parsed.called => parsed.result = parseFile(fs, AtStart, parsed.filePath).result

\* a script file with two imports and named exports was parsed without error
C28_Witness ==
  /\ parsed.called
  /\ parsed.filePath = PTs
  /\ ~parsed.result.error
  /\ Len(parsed.result.imports) = 2
  /\ Len(parsed.result.exports.named) = 3
  /\ re = AtStart

\* the signals of the plain script block of the file parsed
ScriptSignals == ReadFile(fs, parsed.filePath).scriptBlock.content.signals

\* a Vue file with a plain script block and no script-setup block was parsed
\* without error
PlainScriptParsed ==
  /\ parsed.called
  /\ endsWith(parsed.filePath, ExtVue)
  /\ ~ReadFailed
  /\ ~parsed.result.error
  /\ ReadFile(fs, parsed.filePath).script
  /\ ~ReadFile(fs, parsed.filePath).scriptSetup

\* C29: for a Vue script without a script-setup block for which the raw
\* fallback does not fire, `functional: true` or a default export that is a
\* bare function makes scriptType 'functional', and otherwise a class
\* extending Vue/Component or an @Component token makes it 'class', whatever
\* composition or options signals are present as well.
C29_FunctionalThenClassShortCircuit ==
  (PlainScriptParsed /\ ~RawFallback(ScriptSignals)) =>
    /\ (ScriptSignals.functionalTrue \/ ScriptSignals.defaultFunction)
         => parsed.result.scriptType = "functional"
    /\ (/\ ~(ScriptSignals.functionalTrue \/ ScriptSignals.defaultFunction)
        /\ (ScriptSignals.classExtends \/ ScriptSignals.componentDecorator))
         => parsed.result.scriptType = "class"

\* a script with `functional: true`, a class extending Vue, defineComponent
\* and setup() was classified functional
C29_Witness ==
  /\ PlainScriptParsed
  /\ ~RawFallback(ScriptSignals)
  /\ ScriptSignals.functionalTrue
  /\ ScriptSignals.classExtends
  /\ ScriptSignals.defineComponent /\ ScriptSignals.setupFunction
  /\ parsed.result.scriptType = "functional"

\* C30: for a Vue script without a script-setup block, a single
\* `import { ... } from 'vue'` statement naming 10 or more specifiers makes
\* scriptType 'composition' whatever the content without comments and
\* strings holds; the threshold is exactly 10 specifiers.
C30_TenVueSpecifiersForceComposition ==
  PlainScriptParsed =>
    /\ ScriptSignals.vueImportParts >= 10 => parsed.result.scriptType = "composition"
    /\ (/\ ScriptSignals.vueImportParts \in 1..9
        /\ ~ScriptSignals.rawRender
        /\ parsed.result.scriptType = "composition")
         => Classify(ScriptSignals) = "composition"
====
